---- MODULE Spec2Model ----
(***************************************************************************)
(* Model of ec2-benchmarks/generate_reports.py: the command-line driver,   *)
(* generate_plots (load, markdown summary, proving-time chart, gas chart)  *)
(* and generate_summary_markdown.                                          *)
(*                                                                         *)
(* Representation.                                                         *)
(*  - A JSON object whose key order matters (proving_times, gas_costs) is  *)
(*    a sequence of [k |-> key, v |-> value] pairs with distinct keys, in  *)
(*    insertion order (Python dicts keep insertion order).                 *)
(*  - raw_data is a function from the suite names it holds to entries; an  *)
(*    entry is a function from the metric keys it holds ("proving_times",  *)
(*    "gas_costs") to the list of per-trial values.                        *)
(*  - A suite name is the sequence of the code points of the string, so    *)
(*    that sorted() can be modelled as Python's string order.              *)
(*  - A JSON number is a multiple of 1/Unit, held as its count of          *)
(*    1/Unit: Whole(3) is the number 3, and 1 is the number 0.1.           *)
(*  - A standard deviation is a float computed by numpy.  Its record       *)
(*    holds the real number the formula denotes, as the reduced fraction   *)
(*    [sq_num, sq_den] of its square (the square root is taken where the   *)
(*    code turns it into digits, '.3f' and '.2f'), and positive, whether   *)
(*    the float computed is greater than 0: the float mean of equal        *)
(*    trials can differ from them in the last binary digit, and the        *)
(*    deviation computed is then a tiny number instead of 0.  The mean     *)
(*    is computed as numpy does, in IEEE 754 binary64 arithmetic on        *)
(*    mantissas held as lists of binary digits.                            *)
(*  - A written file is an entry of the function files: file name |->      *)
(*    content.  The markdown content is the list of its lines, a chart's   *)
(*    content is the record of the bar series and the legend labels.       *)
(***************************************************************************)
EXTENDS Integers, Sequences, FiniteSets, TLC

VARIABLES
    argc,          \* len(sys.argv)
    fileKind,      \* what is at the path: "missing", "undecodable" (bytes
                   \* that are not text in the encoding open() uses),
                   \* "invalid" (text that is not JSON) or "json"
    fileData,      \* the object the file holds when fileKind = "json"
    pc,            \* position in __main__ / generate_plots
    data,          \* generate_plots: data
    suites,        \* generate_plots: suites (of the chart being built)
    avg_times,     \* generate_plots: avg_times
    min_times,     \* generate_plots: min_times
    max_times,     \* generate_plots: max_times
    avg_costs,     \* generate_plots: avg_costs
    min_costs,     \* generate_plots: min_costs
    max_costs,     \* generate_plots: max_costs
    std_devs,      \* generate_plots: std_devs (rebound by the gas section)
    it,            \* position of the running `for suite in suites` loop
    files,         \* the output directory: file name |-> content
    stdout,        \* the lines printed so far
    exc,           \* the exception propagating, "none" when there is none
    success,       \* generate_plots' return value: "none", "True", "False"
    exit_code      \* the process exit status, -1 while running

vars == <<argc, fileKind, fileData, pc, data, suites, avg_times, min_times,
          max_times, avg_costs, min_costs, max_costs, std_devs, it, files,
          stdout, exc, success, exit_code>>

----------------------------------------------------------------------------
(* Bounds of the model *)

\* most keys of proving_times / of gas_costs
MaxSuites == 2
\* top-level averages range over the whole numbers 1..MaxAvg
MaxAvg == 2
\* most trials of a raw sequence in LoopRecords
MaxTrials == 1
\* trial values of StatsRecords range over the whole numbers 1..MaxVal
MaxVal == 3
\* most trials of a raw sequence in StatsRecords and DecimalRecords
MaxLen == 3
\* the JSON numbers of the model are the multiples of 1 / Unit
Unit == 10
\* trial values of DecimalRecords range over 1/Unit .. MaxDec/Unit
MaxDec == 2

----------------------------------------------------------------------------
(* Python values *)

\* "a", "B" : the suite names of the records that carry raw data
LoopNames == {<<97>>, <<66>>}
\* "a", "ab", "B" : the suite names of the records of the summary
SummaryNames == {<<97>>, <<97, 98>>, <<66>>}

MetricKeys == {"proving_times", "gas_costs"}

\* str.__lt__ : order by code point, a proper prefix first
RECURSIVE StrLess(_, _)
StrLess(a, b) ==
    IF b = <<>> THEN FALSE
    ELSE IF a = <<>> THEN TRUE
    ELSE IF a[1] # b[1] THEN a[1] < b[1]
    ELSE StrLess(Tail(a), Tail(b))

\* list(d.keys())
Keys(d) == [i \in 1..Len(d) |-> d[i].k]
\* list(d.values())
Values(d) == [i \in 1..Len(d) |-> d[i].v]
\* the set of keys of d
KeySet(d) == {d[i].k : i \in 1..Len(d)}
\* key in d
HasKey(d, key) == key \in KeySet(d)
\* d[key]
Lookup(d, key) == d[CHOOSE i \in 1..Len(d) : d[i].k = key].v

\* set(list(a.keys()) + list(b.keys()))
KeyUnion(a, b) == KeySet(a) \cup KeySet(b)

\* sorted(..., reverse=True)
RECURSIVE SortedReverse(_)
SortedReverse(S) ==
    IF S = {} THEN <<>>
    ELSE LET m == CHOOSE x \in S : \A y \in S : ~StrLess(x, y)
         IN  <<m>> \o SortedReverse(S \ {m})

\* sorted(list(S)) for a set of strings
RECURSIVE Sorted(_)
Sorted(S) ==
    IF S = {} THEN <<>>
    ELSE LET m == CHOOSE x \in S : \A y \in S : ~StrLess(y, x)
         IN  <<m>> \o Sorted(S \ {m})

\* min(xs) for a non-empty list: the first smallest element
RECURSIVE PyMin(_)
PyMin(xs) ==
    IF Len(xs) = 1 THEN xs[1]
    ELSE LET m == PyMin(Tail(xs)) IN IF m < xs[1] THEN m ELSE xs[1]

\* max(xs) for a non-empty list
RECURSIVE PyMax(_)
PyMax(xs) ==
    IF Len(xs) = 1 THEN xs[1]
    ELSE LET m == PyMax(Tail(xs)) IN IF m > xs[1] THEN m ELSE xs[1]

RECURSIVE Sum(_)
Sum(xs) == IF xs = <<>> THEN 0 ELSE xs[1] + Sum(Tail(xs))

\* the JSON number k without a fractional part
Whole(k) == Unit * k

\* floor of the square root
RECURSIVE ISqrt(_)
ISqrt(n) ==
    IF n < 2 THEN n
    ELSE LET s == 2 * ISqrt(n \div 4)
             l == s + 1
         IN  IF l * l > n THEN s ELSE l

RECURSIVE Gcd(_, _)
Gcd(a, b) == IF b = 0 THEN a ELSE Gcd(b, a % b)

----------------------------------------------------------------------------
(* float64 arithmetic *)

\* the binary digits of the mantissa of a float64
Precision == 53

\* a natural number as its binary digits, the least significant first and
\* the last one 1
RECURSIVE Bits(_)
Bits(n) == IF n = 0 THEN <<>> ELSE <<n % 2>> \o Bits(n \div 2)

\* a without its leading zeros
Strip(a) ==
    LET ones == {i \in 1..Len(a) : a[i] = 1}
    IN  IF ones = {} THEN <<>>
        ELSE SubSeq(a, 1, CHOOSE i \in ones : \A j \in ones : j <= i)

\* a with leading zeros, w digits in all
Pad(a, w) == a \o [i \in 1..(w - Len(a)) |-> 0]

\* the digits s of a + b + carry, for a and b of one length, and the carry
\* c out of them: the low half is added first, its carry goes into the
\* high half
RECURSIVE AddDigits(_, _, _)
AddDigits(a, b, carry) ==
    IF Len(a) = 1
    THEN [s |-> <<(a[1] + b[1] + carry) % 2>>,
          c |-> (a[1] + b[1] + carry) \div 2]
    ELSE LET h  == Len(a) \div 2
             lo == AddDigits(SubSeq(a, 1, h), SubSeq(b, 1, h), carry)
             hi == AddDigits(SubSeq(a, h + 1, Len(a)),
                             SubSeq(b, h + 1, Len(b)), lo.c)
         IN  [s |-> lo.s \o hi.s, c |-> hi.c]

\* a + b
BitsAdd(a, b) ==
    LET w == 1 + (IF Len(a) > Len(b) THEN Len(a) ELSE Len(b))
    IN  Strip(AddDigits(Pad(a, w), Pad(b, w), 0).s)

\* a * 2^k
Shl(a, k) == IF a = <<>> THEN <<>> ELSE [i \in 1..k |-> 0] \o a

\* the digits of a, the most significant first
Reverse(a) == [i \in 1..Len(a) |-> a[Len(a) + 1 - i]]

\* long division by a machine integer n > 0, as on paper: a holds digits
\* written the most significant first, r < n is the remainder carried in
\* from the digits before them; q holds the digits of the quotient, as
\* many as a has, and r the remainder carried out.  The first half is
\* divided first, its remainder goes into the second half.
RECURSIVE DivDigits(_, _, _)
DivDigits(a, n, r) ==
    IF Len(a) = 1
    THEN [q |-> <<(2 * r + a[1]) \div n>>, r |-> (2 * r + a[1]) % n]
    ELSE LET h      == Len(a) \div 2
             first  == DivDigits(SubSeq(a, 1, h), n, r)
             second == DivDigits(SubSeq(a, h + 1, Len(a)), n, first.r)
         IN  [q |-> first.q \o second.q, r |-> second.r]

\* quotient and remainder of a by a machine integer n > 0
BitsDivMod(a, n) ==
    IF a = <<>> THEN [q |-> <<>>, r |-> 0]
    ELSE LET d == DivDigits(Reverse(a), n, 0)
         IN  [q |-> Strip(Reverse(d.q)), r |-> d.r]

\* the float64 nearest to (a + f) * 2^e for a natural number a > 0 and a
\* real 0 <= f < 1 that is not 0 iff inexact: round to nearest, ties to
\* even.  The float is [m, e], the number m * 2^e with a mantissa m of
\* Precision digits.  An inexact a has more than Precision digits.
Float(a, inexact, e) ==
    LET drop == Len(a) - Precision
    IN  IF drop <= 0 THEN [m |-> Shl(a, -drop), e |-> e + drop]
        ELSE LET kept   == SubSeq(a, drop + 1, Len(a))
                 sticky == inexact \/ \E i \in 1..(drop - 1) : a[i] = 1
                 up     == a[drop] = 1 /\ (sticky \/ kept[1] = 1)
                 r      == IF up THEN BitsAdd(kept, <<1>>) ELSE kept
             IN  IF Len(r) > Precision
                 THEN [m |-> Tail(r), e |-> e + drop + 1]
                 ELSE [m |-> r, e |-> e + drop]

\* the digits to work a quotient by n out to, for it to have two digits
\* more than a mantissa
Scaling(n) == Len(Bits(n)) + 2

\* json.load / np.asarray: the float64 of the JSON number k / Unit, k > 0
JsonNumber(k) ==
    LET by == Precision + Scaling(Unit)
        d  == BitsDivMod(Shl(Bits(k), by), Unit)
    IN  Float(d.q, d.r # 0, -by)

\* x + y in float64
FloatAdd(x, y) ==
    LET lo == IF x.e < y.e THEN x.e ELSE y.e
    IN  Float(BitsAdd(Shl(x.m, x.e - lo), Shl(y.m, y.e - lo)), FALSE, lo)

\* x / n in float64, n a positive count
FloatDiv(x, n) ==
    LET d == BitsDivMod(Shl(x.m, Scaling(n)), n)
    IN  Float(d.q, d.r # 0, x.e - Scaling(n))

\* np.add.reduce of fewer than 8 floats: they are added one after the other
RECURSIVE FloatSum(_)
FloatSum(fs) ==
    IF Len(fs) = 1 THEN fs[1]
    ELSE FloatAdd(FloatSum(SubSeq(fs, 1, Len(fs) - 1)), fs[Len(fs)])

\* arrmean of np.std: the sum of the trials divided by their count
NpMean(xs) ==
    FloatDiv(FloatSum([i \in 1..Len(xs) |-> JsonNumber(xs[i])]), Len(xs))

----------------------------------------------------------------------------
(* Standard deviations *)

\* the real number sqrt(num / den), den > 0, as the reduced fraction of
\* its square; positive: the number is greater than 0
Root(num, den) ==
    LET g == Gcd(num, den)
    IN  [sq_num |-> num \div g, sq_den |-> den \div g, positive |-> num > 0]

\* the number 0 of std_devs.append(0)
Zero == Root(0, 1)

\* the float mean of n trials that are all k / Unit is not that number
MeanDiffers(k, n) == JsonNumber(k) # NpMean([i \in 1..n |-> k])

\* MeanDiffers of the numbers and of the lengths of the records of the
\* model, worked out once
MeanDiffersOf ==
    [k \in 1..Whole(MaxVal + MaxAvg) |->
        [n \in 1..(MaxLen + MaxTrials) |-> MeanDiffers(k, n)]]

\* some trial of xs is not the float mean of xs.  Trials that are all the
\* mean are all equal, so that only equal trials have to be compared with
\* their mean.
SomeDeviation(xs) ==
    LET k == xs[1]
        n == Len(xs)
    IN  IF \E i \in 1..n : xs[i] # k THEN TRUE
        ELSE IF k \in DOMAIN MeanDiffersOf /\ n \in DOMAIN MeanDiffersOf[k]
             THEN MeanDiffersOf[k][n]
        ELSE MeanDiffers(k, n)

\* np.std(xs, ddof=d) of the JSON numbers xs[i] / Unit:
\* mean = sum/n, then sqrt(sum |x - mean|^2 / (n - d)).
\* As a real number, with S = sum(xs): sum (x - S/n)^2 = (sum (n*x - S)^2)
\* / n^2.  As a float, the result is greater than 0 iff some x - mean is
\* not 0, that is iff some trial is not the float mean (the difference of
\* two floats that differ is not 0, and neither its square nor the square
\* root of the sum underflows at these magnitudes).
NpStd(xs, d) ==
    LET n    == Len(xs)
        S    == Sum(xs)
        dev  == [i \in 1..n |-> (n * xs[i] - S) * (n * xs[i] - S)]
        real == Root(Sum(dev), n * n * (n - d) * Unit * Unit)
    IN  [real EXCEPT !.positive = SomeDeviation(xs)]

\* the ddof argument of the two np.std calls
ddof == 1

\* np.std(xs) with the default ddof=0, the population deviation
PopulationStd(xs) == NpStd(xs, 0)

\* np.std(individual_times, ddof=1)
SampleStd(xs) == NpStd(xs, ddof)

\* the std_devs entry of a suite with raw trials xs
StdEntry(xs) == IF Len(xs) > 1 THEN SampleStd(xs) ELSE Zero

\* `if std_devs[i] > 0`, the test that picks the legend entry
HasDeviation(sd) == sd.positive

\* '.3f' prints thousandths
ThreeDecimals == 1000
\* '.2f' prints hundredths
TwoDecimals == 100

\* n without its factors of two
RECURSIVE OddPart(_)
OddPart(n) == IF n % 2 = 0 THEN OddPart(n \div 2) ELSE n

\* format(sd, '.<k>f') with scale = 10^k: the multiples of 1/scale that the
\* digits printed can be, as integers (1155 for '1.155').  The format
\* rounds the binary value of the float to the nearest multiple.  When
\* scale * sd lies exactly halfway between two integers (twice is odd):
\* a halfway value that a binary float holds exactly (0.125, 0.625) goes
\* to the even digit ('0.12', '0.62'); any other halfway value (0.0005) is
\* stored as a float slightly off the half, on a side fixed by its binary
\* expansion, and either neighbour can be printed.  The tiny deviation
\* computed for equal trials (sq_num = 0, positive) prints as 0.
Formatted(sd, scale) ==
    LET x4    == 4 * scale * scale * sd.sq_num
        q     == x4 \div sd.sq_den
        twice == ISqrt(q)
        tie   == x4 % sd.sq_den = 0 /\ twice * twice = q /\ twice % 2 = 1
        below == (twice - 1) \div 2
        exact == twice % OddPart(scale) = 0
    IN  IF ~tie THEN {(twice + 1) \div 2}
        ELSE IF exact THEN {IF below % 2 = 0 THEN below ELSE below + 1}
        ELSE {below, below + 1}

\* f'{suite}: sigma={std_devs[i]:.3f}s' / f'{suite}: single measurement':
\* the label, one per outcome of the format
ProvingLabel(suite, sd) ==
    IF HasDeviation(sd)
    THEN {[suite |-> suite, text |-> "sigma", shown |-> v] :
             v \in Formatted(sd, ThreeDecimals)}
    ELSE {[suite |-> suite, text |-> "single measurement", shown |-> 0]}

\* f'{suite}: sigma={std_devs[i]:.2f}' / f'{suite}: deterministic'
GasLabel(suite, sd) ==
    IF HasDeviation(sd)
    THEN {[suite |-> suite, text |-> "sigma", shown |-> v] :
             v \in Formatted(sd, TwoDecimals)}
    ELSE {[suite |-> suite, text |-> "deterministic", shown |-> 0]}

\* the lists legend_labels can be after `for i, suite in enumerate(suites)`,
\* labels[i] being the labels that entry i can be
LegendLabels(labels) ==
    {ls \in [1..Len(labels) -> UNION {labels[i] : i \in 1..Len(labels)}] :
        \A i \in 1..Len(labels) : ls[i] \in labels[i]}

\* the bars and the text box handed to plt.bar / plt.text before savefig
Chart(ss, mins, avgs, maxs, labels) ==
    [suites |-> ss, minimum |-> mins, average |-> avgs, maximum |-> maxs,
     legend |-> labels]

\* avg_times[0] whatever the index
AtFirst(xs, index) == xs[1]

\* avg_times[len(min_times)] : Python indexes from 0, sequences from 1
At(xs, index) == xs[index + 1]

----------------------------------------------------------------------------
(* generate_summary_markdown *)

\* int(x) for x >= 0: the fractional part is dropped
PyInt(x) == Whole(x \div Unit)

\* the lines appended to md_content for one suite; '{:.3f}' prints a
\* multiple of 1/Unit as it is
Section(suite, proving_times, gas_costs) ==
    <<[t |-> "heading", suite |-> suite, v |-> 0]>>
    \o (IF HasKey(proving_times, suite)
        THEN <<[t |-> "proving_time", suite |-> <<>>,
                v |-> Lookup(proving_times, suite)]>>
        ELSE <<>>)
    \o (IF HasKey(gas_costs, suite)
        THEN <<[t |-> "gas_cost", suite |-> <<>>,
                v |-> PyInt(Lookup(gas_costs, suite))]>>
        ELSE <<>>)

RECURSIVE Sections(_, _, _)
Sections(ss, proving_times, gas_costs) ==
    IF ss = <<>> THEN <<>>
    ELSE Section(ss[1], proving_times, gas_costs)
         \o Sections(Tail(ss), proving_times, gas_costs)

\* the suite list of the summary
SummarySuites(proving_times, gas_costs) ==
    Sorted(KeyUnion(proving_times, gas_costs))

\* md_content: the header block, then one section per suite
MdContent(d) ==
    <<[t |-> "header", suite |-> <<>>, v |-> 0]>>
    \o Sections(SummarySuites(d.proving_times, d.gas_costs),
                d.proving_times, d.gas_costs)

----------------------------------------------------------------------------
(* The inputs: the command line and the file at the path *)

\* the lists of at most n distinct names
KeyLists(names, n) ==
    {ks \in UNION {[1..m -> names] : m \in 0..n} :
        \A i, j \in 1..Len(ks) : i # j => ks[i] # ks[j]}

\* the JSON objects with at most n keys among names and values among vals
Dicts(names, n, vals) ==
    UNION {{[i \in 1..Len(ks) |-> [k |-> ks[i], v |-> vs[i]]] :
               vs \in [1..Len(ks) -> vals]} : ks \in KeyLists(names, n)}

\* the JSON numbers k without a fractional part, k in S
Wholes(S) == {Whole(k) : k \in S}

\* the lists of at most n values among vals
Lists(vals, n) == UNION {[1..m -> vals] : m \in 0..n}

\* the raw_data objects over names whose entries hold the keys of metrics
RawData(names, metrics, lists) ==
    UNION {[D -> UNION {[F -> lists] : F \in SUBSET metrics}] :
              D \in SUBSET names}

EmptyData == [proving_times |-> <<>>, gas_costs |-> <<>>, raw_data |-> <<>>]

\* several suites per metric, raw sequences present, empty or absent; the
\* trials all measure MaxAvg + 1, a value no reported average takes
LoopRecords ==
    [proving_times : Dicts(LoopNames, MaxSuites, Wholes(1..MaxAvg)),
     gas_costs     : Dicts(LoopNames, MaxSuites, Wholes(1..MaxAvg)),
     raw_data      : RawData(LoopNames, MetricKeys,
                             Lists({Whole(MaxAvg + 1)}, MaxTrials))]

\* more suite names, no raw_data
SummaryRecords ==
    [proving_times : Dicts(SummaryNames, MaxSuites, Wholes(1..MaxAvg)),
     gas_costs     : Dicts(SummaryNames, MaxSuites, Wholes(1..MaxAvg)),
     raw_data      : {<<>>}]

\* one suite of one metric with an average among avgs, every raw
\* sequence of at most MaxLen trials among vals
OneSuiteRecords(avgs, vals) ==
    LET name == <<97>>
        one  == Dicts({name}, 1, avgs) \ {<<>>}
    IN  [proving_times : one, gas_costs : {<<>>},
         raw_data : RawData({name}, {"proving_times"}, Lists(vals, MaxLen))]
        \cup
        [proving_times : {<<>>}, gas_costs : one,
         raw_data : RawData({name}, {"gas_costs"}, Lists(vals, MaxLen))]

\* trials and averages without a fractional part: 1, .., MaxVal
StatsRecords == OneSuiteRecords(Wholes(1..MaxVal), Wholes(1..MaxVal))

\* trials with a fractional part: 1/Unit, .., MaxDec/Unit
DecimalRecords == OneSuiteRecords({Whole(1)}, 1..MaxDec)

Records ==
    LoopRecords \cup SummaryRecords \cup StatsRecords \cup DecimalRecords

\* A command line without a path (argc = 1) names no file; with one path
\* (argc = 2) or two (argc = 3) the file at the first path is missing, is
\* not text, is text that is not JSON, or holds one of Records.
Init ==
    /\ argc \in 1..3
    /\ \/ fileKind = "missing" /\ fileData = EmptyData
       \/ argc > 1 /\ fileKind \in {"undecodable", "invalid"}
                   /\ fileData = EmptyData
       \/ argc > 1 /\ fileKind = "json" /\ fileData \in Records
    /\ pc = "main"
    /\ data = EmptyData
    /\ suites = <<>>
    /\ avg_times = <<>> /\ min_times = <<>> /\ max_times = <<>>
    /\ avg_costs = <<>> /\ min_costs = <<>> /\ max_costs = <<>>
    /\ std_devs = <<>>
    /\ it = 0
    /\ files = <<>>
    /\ stdout = <<>>
    /\ exc = "none"
    /\ success = "none"
    /\ exit_code = -1

inputs == <<argc, fileKind, fileData>>
provingLists == <<avg_times, min_times, max_times>>
gasLists == <<avg_costs, min_costs, max_costs>>
locals == <<suites, provingLists, gasLists, std_devs, it>>

\* files with one more (or one overwritten) entry
WriteFile(fs, name, content) ==
    [n \in DOMAIN fs \cup {name} |-> IF n = name THEN content ELSE fs[n]]

----------------------------------------------------------------------------
(* __main__ *)

\* len(sys.argv) != 2: usage message, sys.exit(1)
MainUsage ==
    /\ pc = "main"
    /\ argc # 2
    /\ stdout' = Append(stdout, "usage")
    /\ exit_code' = 1
    /\ pc' = "exited"
    /\ UNCHANGED <<inputs, data, locals, files, exc, success>>

\* success = generate_plots(json_file)
MainCall ==
    /\ pc = "main"
    /\ argc = 2
    /\ pc' = "load"
    /\ UNCHANGED <<inputs, data, locals, files, stdout, exc, success, exit_code>>

\* the status of sys.exit(0 if success else 1)
ExitStatusZero(ok) == 0

ExitStatus(ok) == IF ok = "True" THEN 0 ELSE 1

\* sys.exit(0 if success else 1)
MainExit ==
    /\ pc = "returned"
    /\ exit_code' = ExitStatus(success)
    /\ pc' = "exited"
    /\ UNCHANGED <<inputs, data, locals, files, stdout, exc, success>>

\* an exception nothing catches ends the interpreter with status 1
MainUncaught ==
    /\ pc = "raised"
    /\ exit_code' = 1
    /\ pc' = "exited"
    /\ UNCHANGED <<inputs, data, locals, files, stdout, exc, success>>

----------------------------------------------------------------------------
(* generate_plots: load *)

\* the exceptions the try statement around open / json.load catches
ExceptClauses == {"FileNotFoundError", "JSONDecodeError"}

\* open / json.load raised e: the matching except clause prints msg and
\* returns False, an exception no clause matches propagates
LoadError(e, msg) ==
    IF e \in ExceptClauses
    THEN /\ stdout' = Append(stdout, msg)
         /\ success' = "False"
         /\ pc' = "returned"
         /\ exc' = exc
    ELSE /\ exc' = e
         /\ pc' = "raised"
         /\ UNCHANGED <<stdout, success>>

\* except FileNotFoundError
LoadNotFound ==
    /\ pc = "load"
    /\ fileKind = "missing"
    /\ LoadError("FileNotFoundError", "not_found")
    /\ UNCHANGED <<inputs, data, locals, files, exit_code>>

\* f.read() inside json.load cannot decode the bytes: UnicodeDecodeError,
\* a ValueError that is no JSONDecodeError
LoadUndecodable ==
    /\ pc = "load"
    /\ fileKind = "undecodable"
    /\ LoadError("UnicodeDecodeError", "invalid_json")
    /\ UNCHANGED <<inputs, data, locals, files, exit_code>>

\* except json.JSONDecodeError
LoadInvalid ==
    /\ pc = "load"
    /\ fileKind = "invalid"
    /\ LoadError("JSONDecodeError", "invalid_json")
    /\ UNCHANGED <<inputs, data, locals, files, exit_code>>

\* data = json.load(f)
LoadOk ==
    /\ pc = "load"
    /\ fileKind = "json"
    /\ data' = fileData
    /\ pc' = "summary"
    /\ UNCHANGED <<inputs, locals, files, stdout, exc, success, exit_code>>

\* generate_summary_markdown(data, output_dir)
GenerateSummaryMarkdown ==
    /\ pc = "summary"
    /\ files' = WriteFile(files, "performance_summary.md", MdContent(data))
    /\ stdout' = Append(stdout, "summary")
    /\ pc' = "proving"
    /\ UNCHANGED <<inputs, data, locals, exc, success, exit_code>>

----------------------------------------------------------------------------
(* generate_plots: the proving-time chart *)

\* suite in raw_data and metric in raw_data[suite]
HasRaw(raw_data, suite, metric) ==
    suite \in DOMAIN raw_data /\ metric \in DOMAIN raw_data[suite]

\* suites = sorted(d.keys())
KeysSorted(d) == Sorted(KeySet(d))

\* suites = list(proving_times.keys()) / list(gas_costs.keys())
ChartSuites(d) == Keys(d)

\* `if proving_times:` is false
ProvingSkip ==
    /\ pc = "proving"
    /\ data.proving_times = <<>>
    /\ pc' = "gas"
    /\ UNCHANGED <<inputs, data, locals, files, stdout, exc, success, exit_code>>

\* `if proving_times:` is true: suites, avg_times and the three empty lists
ProvingBegin ==
    /\ pc = "proving"
    /\ data.proving_times # <<>>
    /\ suites' = ChartSuites(data.proving_times)
    /\ avg_times' = Values(data.proving_times)
    /\ min_times' = <<>> /\ max_times' = <<>> /\ std_devs' = <<>>
    /\ it' = 1
    /\ pc' = "proving_loop"
    /\ UNCHANGED <<inputs, data, gasLists, files, stdout, exc, success, exit_code>>

\* loop body, the suite has raw proving times and they are not empty
ProvingRaw ==
    /\ pc = "proving_loop"
    /\ it <= Len(suites)
    /\ HasRaw(data.raw_data, suites[it], "proving_times")
    /\ LET individual_times == data.raw_data[suites[it]]["proving_times"]
       IN  /\ individual_times # <<>>
           /\ min_times' = Append(min_times, PyMin(individual_times))
           /\ max_times' = Append(max_times, PyMax(individual_times))
           /\ std_devs' = Append(std_devs, StdEntry(individual_times))
    /\ it' = it + 1
    /\ UNCHANGED <<inputs, data, suites, avg_times, gasLists, pc, files,
                   stdout, exc, success, exit_code>>

\* the ValueError caught and dropped, the run going on to the gas chart
ProvingRaiseSwallowed ==
    /\ pc = "proving_loop"
    /\ it <= Len(suites)
    /\ HasRaw(data.raw_data, suites[it], "proving_times")
    /\ data.raw_data[suites[it]]["proving_times"] = <<>>
    /\ pc' = "gas"
    /\ UNCHANGED <<inputs, data, locals, files, stdout, exc, success, exit_code>>

\* loop body, the suite has raw proving times and the list is empty:
\* min(individual_times) raises ValueError before anything is appended
ProvingRaise ==
    /\ pc = "proving_loop"
    /\ it <= Len(suites)
    /\ HasRaw(data.raw_data, suites[it], "proving_times")
    /\ data.raw_data[suites[it]]["proving_times"] = <<>>
    /\ exc' = "ValueError"
    /\ pc' = "raised"
    /\ UNCHANGED <<inputs, data, locals, files, stdout, success, exit_code>>

\* loop body, no raw proving times for the suite
ProvingFallback ==
    /\ pc = "proving_loop"
    /\ it <= Len(suites)
    /\ ~HasRaw(data.raw_data, suites[it], "proving_times")
    /\ min_times' = Append(min_times, At(avg_times, Len(min_times)))
    /\ max_times' = Append(max_times, At(avg_times, Len(max_times)))
    /\ std_devs' = Append(std_devs, Zero)
    /\ it' = it + 1
    /\ UNCHANGED <<inputs, data, suites, avg_times, gasLists, pc, files,
                   stdout, exc, success, exit_code>>

\* after the loop: legend labels, bars, savefig('proving_times.png'), print
ProvingRender ==
    /\ pc = "proving_loop"
    /\ it > Len(suites)
    /\ \E legend_labels \in LegendLabels(
              [i \in 1..Len(suites) |->
                  ProvingLabel(suites[i], std_devs[i])]) :
           files' = WriteFile(files, "proving_times.png",
                      Chart(suites, min_times, avg_times, max_times,
                            legend_labels))
    /\ stdout' = Append(stdout, "proving_times")
    /\ pc' = "gas"
    /\ UNCHANGED <<inputs, data, locals, exc, success, exit_code>>

----------------------------------------------------------------------------
(* generate_plots: the gas chart *)

\* `if gas_costs:` is false
GasSkip ==
    /\ pc = "gas"
    /\ data.gas_costs = <<>>
    /\ pc' = "finish"
    /\ UNCHANGED <<inputs, data, locals, files, stdout, exc, success, exit_code>>

\* `if gas_costs:` is true: suites, avg_costs and the three empty lists
GasBegin ==
    /\ pc = "gas"
    /\ data.gas_costs # <<>>
    /\ suites' = ChartSuites(data.gas_costs)
    /\ avg_costs' = Values(data.gas_costs)
    /\ min_costs' = <<>> /\ max_costs' = <<>> /\ std_devs' = <<>>
    /\ it' = 1
    /\ pc' = "gas_loop"
    /\ UNCHANGED <<inputs, data, provingLists, files, stdout, exc, success,
                   exit_code>>

\* loop body, the suite has raw gas costs and they are not empty
GasRaw ==
    /\ pc = "gas_loop"
    /\ it <= Len(suites)
    /\ HasRaw(data.raw_data, suites[it], "gas_costs")
    /\ LET individual_costs == data.raw_data[suites[it]]["gas_costs"]
       IN  /\ individual_costs # <<>>
           /\ min_costs' = Append(min_costs, PyMin(individual_costs))
           /\ max_costs' = Append(max_costs, PyMax(individual_costs))
           /\ std_devs' = Append(std_devs, StdEntry(individual_costs))
    /\ it' = it + 1
    /\ UNCHANGED <<inputs, data, suites, avg_costs, provingLists, pc, files,
                   stdout, exc, success, exit_code>>

\* loop body, the suite's raw gas costs are an empty list
GasEmpty ==
    /\ pc = "gas_loop"
    /\ it <= Len(suites)
    /\ HasRaw(data.raw_data, suites[it], "gas_costs")
    /\ data.raw_data[suites[it]]["gas_costs"] = <<>>
    /\ LET avg_val == At(avg_costs, Len(min_costs))
       IN  /\ min_costs' = Append(min_costs, avg_val)
           /\ max_costs' = Append(max_costs, avg_val)
    /\ std_devs' = Append(std_devs, Zero)
    /\ it' = it + 1
    /\ UNCHANGED <<inputs, data, suites, avg_costs, provingLists, pc, files,
                   stdout, exc, success, exit_code>>

\* loop body, no raw gas costs for the suite
GasFallback ==
    /\ pc = "gas_loop"
    /\ it <= Len(suites)
    /\ ~HasRaw(data.raw_data, suites[it], "gas_costs")
    /\ LET avg_val == At(avg_costs, Len(min_costs))
       IN  /\ min_costs' = Append(min_costs, avg_val)
           /\ max_costs' = Append(max_costs, avg_val)
    /\ std_devs' = Append(std_devs, Zero)
    /\ it' = it + 1
    /\ UNCHANGED <<inputs, data, suites, avg_costs, provingLists, pc, files,
                   stdout, exc, success, exit_code>>

\* after the loop: legend labels, bars, savefig('gas_consumption.png'), print
GasRender ==
    /\ pc = "gas_loop"
    /\ it > Len(suites)
    /\ \E legend_labels \in LegendLabels(
              [i \in 1..Len(suites) |->
                  GasLabel(suites[i], std_devs[i])]) :
           files' = WriteFile(files, "gas_consumption.png",
                      Chart(suites, min_costs, avg_costs, max_costs,
                            legend_labels))
    /\ stdout' = Append(stdout, "gas_consumption")
    /\ pc' = "finish"
    /\ UNCHANGED <<inputs, data, locals, exc, success, exit_code>>

\* print("Plot generation completed!"); return True
ReturnTrue ==
    /\ pc = "finish"
    /\ stdout' = Append(stdout, "completed")
    /\ success' = "True"
    /\ pc' = "returned"
    /\ UNCHANGED <<inputs, data, locals, files, exc, exit_code>>

----------------------------------------------------------------------------

Next ==
    \/ MainUsage \/ MainCall \/ MainExit \/ MainUncaught
    \/ LoadNotFound \/ LoadUndecodable \/ LoadInvalid \/ LoadOk
    \/ GenerateSummaryMarkdown
    \/ ProvingSkip \/ ProvingBegin \/ ProvingRaw \/ ProvingRaise
    \/ ProvingFallback \/ ProvingRender
    \/ GasSkip \/ GasBegin \/ GasRaw \/ GasEmpty \/ GasFallback \/ GasRender
    \/ ReturnTrue

Spec == Init /\ [][Next]_vars

----------------------------------------------------------------------------
(* Vocabulary of the properties *)

Summary == "performance_summary.md"
ProvingPng == "proving_times.png"
GasPng == "gas_consumption.png"

Written(name) == name \in DOMAIN files

\* the load succeeded: this run holds the parsed file
Loaded == argc = 2 /\ fileKind = "json" /\ pc \notin {"main", "load"}

\* the raw per-trial sequence of a suite for a metric is absent
RawAbsent(suite, metric) == ~HasRaw(data.raw_data, suite, metric)

\* the raw per-trial sequence, when it is present
RawOf(suite, metric) == data.raw_data[suite][metric]

RawEmpty(suite, metric) ==
    HasRaw(data.raw_data, suite, metric) /\ RawOf(suite, metric) = <<>>

\* The statistics of the suites the proving-time loop has processed hold on
\* while the loop runs and until the gas section rebinds std_devs.
InProvingStats == pc \in {"proving_loop", "gas"}
\* Those of the gas loop hold on to the end of the run.
InGasStats == pc \in {"gas_loop", "finish", "returned", "exited"}
                /\ Len(min_costs) > 0

\* P(suite, metric, reported average, min, max, stddev) of every suite a
\* statistics loop has processed
ForProcessed(P(_, _, _, _, _, _)) ==
    /\ InProvingStats =>
         \A i \in 1..Len(min_times) :
            P(suites[i], "proving_times", Lookup(data.proving_times, suites[i]),
              min_times[i], max_times[i], std_devs[i])
    /\ InGasStats =>
         \A i \in 1..Len(min_costs) :
            P(suites[i], "gas_costs", Lookup(data.gas_costs, suites[i]),
              min_costs[i], max_costs[i], std_devs[i])

ExistsProcessed(P(_, _, _, _, _, _)) ==
    \/ /\ InProvingStats
       /\ \E i \in 1..Len(min_times) :
            P(suites[i], "proving_times", Lookup(data.proving_times, suites[i]),
              min_times[i], max_times[i], std_devs[i])
    \/ /\ InGasStats
       /\ \E i \in 1..Len(min_costs) :
            P(suites[i], "gas_costs", Lookup(data.gas_costs, suites[i]),
              min_costs[i], max_costs[i], std_devs[i])

\* the body of the statistics loop of metric raised on suites[it]; the
\* proving-time loop is the one loop with a statement that raises (min of
\* an empty list), and it raises before proving_times.png is written
RaisedOn(metric) ==
    /\ exc # "none"
    /\ metric = "proving_times"
    /\ ~Written(ProvingPng)
    /\ it \in 1..Len(suites)

----------------------------------------------------------------------------
(* C1 *)

C1_Degenerate(suite, metric, avg, mn, mx, sd) ==
    (RawAbsent(suite, metric) \/ RawEmpty(suite, metric))
        => mn = avg /\ mx = avg /\ sd = Zero

\* C1: for both metrics, a suite whose raw per-trial sequence is absent or
\* empty raises no error in the statistics loop and gets min = max = the
\* supplied average and stddev = 0.
C1_AbsentOrEmptyIsDegenerate ==
    /\ ForProcessed(C1_Degenerate)
    /\ \A metric \in MetricKeys :
          RaisedOn(metric) =>
             ~(RawAbsent(suites[it], metric) \/ RawEmpty(suites[it], metric))

----------------------------------------------------------------------------
(* C2 *)

\* the textbook sample variance of the numbers xs[i] / Unit, n >= 2, as
\* numerator and denominator: (sum x^2 - (sum x)^2 / n) / (n - 1)
SampleVariance(xs) ==
    LET n  == Len(xs)
        sq == Sum([i \in 1..n |-> xs[i] * xs[i]])
    IN  [num |-> n * sq - Sum(xs) * Sum(xs),
         den |-> n * (n - 1) * Unit * Unit]

\* sd is the textbook sample deviation of xs: its square is the variance
\* (the real number of the formula, before the rounding of the floats)
IsSampleStd(xs, sd) ==
    LET v == SampleVariance(xs)
    IN  sd.sq_den > 0 /\ sd.sq_num * v.den = v.num * sd.sq_den

C2_FromRaw(suite, metric, avg, mn, mx, sd) ==
    (HasRaw(data.raw_data, suite, metric) /\ RawOf(suite, metric) # <<>>) =>
        LET xs == RawOf(suite, metric)
        IN  /\ \E i \in 1..Len(xs) : xs[i] = mn
            /\ \A i \in 1..Len(xs) : mn <= xs[i]
            /\ \E i \in 1..Len(xs) : xs[i] = mx
            /\ \A i \in 1..Len(xs) : xs[i] <= mx
            /\ Len(xs) >= 2 => IsSampleStd(xs, sd)
            /\ Len(xs) = 1 => sd = Zero
            /\ xs = <<Whole(1), Whole(2), Whole(3)>>
                  => mn = Whole(1) /\ mx = Whole(3) /\ sd = Root(1, 1)

\* C2: a suite whose raw sequence for a metric is present and non-empty gets
\* the smallest and the largest element of the sequence as min and max, and
\* as stddev the sample standard deviation (n-1 denominator) of a sequence
\* of at least 2 elements, 0 for a sequence of 1; [1, 2, 3] gives 1, 3, 1.
C2_StatsFromRaw == ForProcessed(C2_FromRaw)

C2_Case(suite, metric, avg, mn, mx, sd) ==
    /\ HasRaw(data.raw_data, suite, metric)
    /\ RawOf(suite, metric) = <<Whole(3), Whole(1), Whole(2)>>
    /\ avg = Whole(3) /\ mn = Whole(1) /\ mx = Whole(3) /\ sd = Root(1, 1)

\* a suite with raw [3, 1, 2] and reported average 3 has been processed
C2_Witness == ExistsProcessed(C2_Case)

----------------------------------------------------------------------------
(* C3 *)

C3_Original(suite, metric, avg, mn, mx, sd) ==
    (RawAbsent(suite, metric) \/ Len(RawOf(suite, metric)) = 1)
        => sd = Zero /\ mn = avg /\ mx = avg

\* C3 as stated: a suite whose raw sequence has length 1, or whose raw data
\* is absent, gets stddev = 0 and min = max = its reported average.
C3_SingleOrAbsentIsAverage == ForProcessed(C3_Original)

C3_Amended(suite, metric, avg, mn, mx, sd) ==
    /\ RawAbsent(suite, metric) => sd = Zero /\ mn = avg /\ mx = avg
    /\ (~RawAbsent(suite, metric) /\ Len(RawOf(suite, metric)) = 1)
          => sd = Zero /\ mn = RawOf(suite, metric)[1]
                    /\ mx = RawOf(suite, metric)[1]

\* C3 amended: a suite whose raw data is absent gets stddev = 0 and
\* min = max = its reported average; a suite whose raw sequence has length
\* 1 gets stddev = 0 and min = max = the one element of the sequence.
C3_SingleIsElementAbsentIsAverage == ForProcessed(C3_Amended)

C3_Case(suite, metric, avg, mn, mx, sd) ==
    /\ ~RawAbsent(suite, metric)
    /\ Len(RawOf(suite, metric)) = 1
    /\ RawOf(suite, metric)[1] # avg
    /\ mn # avg

\* after a suite read its average by fallback, a suite with a single trial
\* that differs from its reported average has been processed
C3_Witness ==
    /\ ExistsProcessed(C3_Case)
    /\ \E i \in 1..Len(suites) : i > 1 /\ RawAbsent(suites[i], "gas_costs")
    /\ pc = "gas_loop" /\ it > Len(suites)

----------------------------------------------------------------------------
(* C4 *)

\* C4: when a run whose load succeeded ends, performance_summary.md has
\* been written, proving_times.png has been written iff proving_times is
\* non-empty, gas_consumption.png iff gas_costs is non-empty, and no error
\* was raised.
C4_OutputsOfALoadedRun ==
    (pc = "exited" /\ Loaded) =>
        /\ Written(Summary)
        /\ Written(ProvingPng) <=> data.proving_times # <<>>
        /\ Written(GasPng) <=> data.gas_costs # <<>>
        /\ exc = "none"

----------------------------------------------------------------------------
(* C5 *)

\* the file is not found, or is not valid JSON (bytes that are not text
\* or text that is not JSON)
LoadFailed == argc = 2 /\ fileKind \in {"missing", "undecodable", "invalid"}

\* C5: when the file is not found or is not valid JSON, the driver prints
\* the error and goes from the load straight to the return: no file is
\* written and generate_plots returns False.
C5_LoadFailureSkipsEverything ==
    LoadFailed =>
        /\ files = <<>>
        /\ pc \in {"main", "load", "returned", "exited"}
        /\ pc \in {"returned", "exited"} =>
              /\ success = "False"
              /\ exc = "none"
              /\ stdout = <<IF fileKind = "missing" THEN "not_found"
                                                    ELSE "invalid_json">>

----------------------------------------------------------------------------
(* C6 *)

\* C6: the exit code is 0 when the load succeeded and every attempted
\* render step completed, charts of empty mappings being skipped; it is 1
\* when the argument count is not one, the file is not found or the input
\* is malformed; with a wrong argument count nothing else runs.
C6_ExitCodes ==
    pc = "exited" =>
        /\ (Loaded /\ exc = "none") => exit_code = 0
        /\ argc # 2 =>
              /\ exit_code = 1
              /\ stdout = <<"usage">>
              /\ files = <<>> /\ data = EmptyData /\ success = "none"
        /\ LoadFailed => exit_code = 1

\* a run that skipped the proving-time chart and drew the gas chart ended
C6_Witness ==
    /\ pc = "exited" /\ exit_code = 0
    /\ data.proving_times = <<>> /\ ~Written(ProvingPng)
    /\ Written(GasPng)

----------------------------------------------------------------------------
(* C7 *)

\* the lines of the subsection that the heading at line h of md opens:
\* those up to the next heading
SectionOf(md, h) ==
    {j \in (h + 1)..Len(md) : \A i \in (h + 1)..j : md[i].t # "heading"}

\* the lines of md that are headings
Headings(md) == {i \in 1..Len(md) : md[i].t = "heading"}

\* C7: the markdown document has exactly one subsection for every key of
\* proving_times or gas_costs and for no other name, in lexicographic
\* order of suite name; a subsection has a proving-time line iff the suite
\* is in proving_times and a gas-cost line iff it is in gas_costs.
C7_OneSortedSectionPerSuite ==
    Written(Summary) =>
        LET md    == files[Summary]
            heads == Headings(md)
            pt    == data.proving_times
            gas   == data.gas_costs
        IN  /\ {md[h].suite : h \in heads} = KeySet(pt) \cup KeySet(gas)
            /\ \A h, j \in heads : h < j => StrLess(md[h].suite, md[j].suite)
            /\ md[1].t = "header"
            /\ Len(md) = 1 + Cardinality(heads) + Len(pt) + Len(gas)
            /\ \A h \in heads :
                  LET lines == SectionOf(md, h)
                      kinds == [j \in lines |-> md[j].t]
                  IN  /\ Cardinality(lines)
                           = (IF HasKey(pt, md[h].suite) THEN 1 ELSE 0)
                             + (IF HasKey(gas, md[h].suite) THEN 1 ELSE 0)
                      /\ HasKey(pt, md[h].suite) <=>
                            \E j \in lines :
                               /\ kinds[j] = "proving_time"
                               /\ md[j].v = Lookup(pt, md[h].suite)
                      /\ HasKey(gas, md[h].suite) <=>
                            \E j \in lines :
                               /\ kinds[j] = "gas_cost"
                               /\ md[j].v = Lookup(gas, md[h].suite)

\* a summary of three suites whose keys were not given in sorted order:
\* "ab" and "B" timed, "a" and "ab" with a gas cost
C7_Witness ==
    /\ Written(Summary)
    /\ Keys(data.proving_times) = <<<<97, 98>>, <<66>>>>
    /\ Keys(data.gas_costs) = <<<<97, 98>>, <<97>>>>
    /\ Cardinality(Headings(files[Summary])) = 3
    /\ Len(files[Summary]) = 8

----------------------------------------------------------------------------
(* C8 *)

DegenerateLabel(name) ==
    IF name = ProvingPng THEN "single measurement" ELSE "deterministic"

\* the metric key of a chart file
MetricOf(name) == IF name = ProvingPng THEN "proving_times" ELSE "gas_costs"

\* the digits of a chart's labels: thousandths of a second, hundredths of
\* a gas unit
ScaleOf(name) == IF name = ProvingPng THEN ThreeDecimals ELSE TwoDecimals

\* s / scale is a multiple of 1 / scale nearest to the textbook sample
\* deviation of xs: |s - scale * sigma| <= 1/2
IsRoundedSampleStd(xs, s, scale) ==
    LET v   == SampleVariance(xs)
        g   == Gcd(v.num, v.den)
        den == v.den \div g
        x   == 4 * scale * scale * (v.num \div g)
    IN  /\ s >= 0
        /\ s = 0 \/ (2 * s - 1) * (2 * s - 1) * den <= x
        /\ x <= (2 * s + 1) * (2 * s + 1) * den

\* C8: in each chart, a suite whose minimum equals its maximum has the
\* degenerate label ("single measurement" on the proving-time chart,
\* "deterministic" on the gas chart) as legend entry, any other suite has
\* the numeric standard deviation; a suite absent from raw_data has the
\* degenerate label.
C8_LegendFollowsSpread ==
    \A name \in {ProvingPng, GasPng} :
        Written(name) =>
            LET c == files[name]
            IN  \A i \in 1..Len(c.suites) :
                    /\ c.legend[i].suite = c.suites[i]
                    /\ c.minimum[i] = c.maximum[i]
                          => c.legend[i].text = DegenerateLabel(name)
                    /\ c.minimum[i] # c.maximum[i]
                          => /\ c.legend[i].text = "sigma"
                             /\ IsRoundedSampleStd(
                                    RawOf(c.suites[i], MetricOf(name)),
                                    c.legend[i].shown, ScaleOf(name))
                    /\ c.suites[i] \notin DOMAIN data.raw_data
                          => c.legend[i].text = DegenerateLabel(name)

----------------------------------------------------------------------------
(* C9 *)

\* the file is written by this step
Writes(name) == name \notin DOMAIN files /\ name \in DOMAIN files'

\* C9: the stages run in the order load, markdown, proving-time chart (or
\* skip), gas chart (or skip), each at most once: the markdown file is
\* written only after a successful load, proving_times.png only after the
\* markdown write, gas_consumption.png only after the proving-time stage
\* completed or was skipped, no file is written twice, and once a stage
\* has failed no file is written.
C9_StagesInOrder ==
    [][ /\ Writes(Summary) =>
              /\ Loaded /\ data = fileData
              /\ files = <<>>
              /\ stdout = <<>>
        /\ Writes(ProvingPng) =>
              /\ Written(Summary) /\ ~Written(GasPng)
              /\ stdout = <<"summary">>
        /\ Writes(GasPng) =>
              /\ Written(Summary)
              /\ \/ Written(ProvingPng) /\ stdout = <<"summary", "proving_times">>
                 \/ data.proving_times = <<>> /\ stdout = <<"summary">>
        /\ files' # files =>
              /\ Cardinality(DOMAIN files') = Cardinality(DOMAIN files) + 1
              /\ \A n \in DOMAIN files : n \in DOMAIN files' /\ files'[n] = files[n]
        /\ (exc # "none" \/ success = "False") => files' = files
        /\ (exc' # "none" /\ exc = "none") => files' = files
      ]_vars

\* the proving-time stage failed in a run that has gas costs to chart, and
\* the run ended with the summary as its only file
C9_Witness ==
    /\ pc = "exited" /\ exc = "ValueError"
    /\ data.gas_costs # <<>>
    /\ DOMAIN files = {Summary}

----------------------------------------------------------------------------
(* C10 *)

\* the entries the loop of a metric has appended so far
C10_Aligned(d, avgs, mins, maxs) ==
    /\ Len(mins) = it - 1 /\ Len(maxs) = it - 1 /\ Len(std_devs) = it - 1
    /\ it - 1 <= Len(suites)
    /\ suites = Keys(d) /\ avgs = Values(d)

\* a chart has one bar group per key of the top-level mapping, in key order
C10_Charted(name, d) ==
    Written(name) =>
        LET c == files[name]
        IN  /\ c.suites = Keys(d)
            /\ c.average = Values(d)
            /\ Len(c.minimum) = Len(d)
            /\ Len(c.maximum) = Len(d)
            /\ Len(c.legend) = Len(d)
            /\ \A i \in 1..Len(d) :
                  RawAbsent(d[i].k, MetricOf(name))
                      => c.minimum[i] = d[i].v /\ c.maximum[i] = d[i].v

\* C10: for each metric the lists of minimums, maximums and standard
\* deviations stay index-aligned with the suite list: all three have
\* length k after the k-th suite, each has one entry per key of the
\* top-level mapping, in key order, after the loop, a fallback entry is the
\* average of the suite being processed, and a raw_data entry for a name
\* that is no key of the mapping adds no charted suite.
C10_ListsStayAligned ==
    /\ pc = "proving_loop" =>
          C10_Aligned(data.proving_times, avg_times, min_times, max_times)
    /\ pc = "gas_loop" =>
          C10_Aligned(data.gas_costs, avg_costs, min_costs, max_costs)
    /\ C10_Charted(ProvingPng, data.proving_times)
    /\ C10_Charted(GasPng, data.gas_costs)

\* both charts are written: the proving-time chart of two suites given in
\* unsorted order with different averages, the second read by fallback;
\* the gas chart of one suite while raw_data holds gas costs of another
C10_Witness ==
    /\ Written(ProvingPng) /\ Written(GasPng)
    /\ Keys(data.proving_times) = <<<<97>>, <<66>>>>
    /\ Values(data.proving_times) = <<Whole(1), Whole(2)>>
    /\ RawAbsent(<<66>>, "proving_times")
    /\ files[ProvingPng].minimum[2] = Whole(2)
    /\ Keys(data.gas_costs) = <<<<97>>>>
    /\ HasRaw(data.raw_data, <<66>>, "gas_costs")
    /\ files[GasPng].suites = <<<<97>>>>

====
